---- MODULE Spec2Model ----
(***************************************************************************)
(* A model of utkarshpy's command line workflow (src/utkarshpy/cli.py).    *)
(*                                                                         *)
(* The program is one sequential script.  Every position of main() at      *)
(* which the outside world answers (a child process exits, the user types  *)
(* a line, a download ends, a file test is made) is one value of pc, and   *)
(* one action models the code from that position to the next one.  Text    *)
(* typed by the user is a sequence of one-character strings, so that       *)
(* strip(), lower() and the regular expression are computed, not assumed.  *)
(***************************************************************************)
EXTENDS Integers, Sequences, FiniteSets, TLC

(***************************************************************************)
(* Bounds of the model.                                                    *)
(***************************************************************************)
\* child processes exit with a code in 0..MaxRc
MaxRc == 2
\* the repository-name prompt is issued at most MaxPrompts times
MaxPrompts == 2
\* at most MaxPreset of the things the workflow tests for are in place beforehand
MaxPreset == 2

ExitCodes == 0..MaxRc

(***************************************************************************)
(* Text.                                                                   *)
(***************************************************************************)
UpperCase == <<"A","B","C","D","E","F","G","H","I","J","K","L","M",
               "N","O","P","Q","R","S","T","U","V","W","X","Y","Z">>
LowerCase == <<"a","b","c","d","e","f","g","h","i","j","k","l","m",
               "n","o","p","q","r","s","t","u","v","w","x","y","z">>
Digits == {"0","1","2","3","4","5","6","7","8","9"}
Whitespace == {" ", "\t", "\n"}

Range(s) == {s[i] : i \in DOMAIN s}

\* str.lower() on one character
LowerChar(c) ==
    IF \E i \in DOMAIN UpperCase : UpperCase[i] = c
    THEN LowerCase[CHOOSE i \in DOMAIN UpperCase : UpperCase[i] = c]
    ELSE c

\* a lower() that was left out
Lower_Missing(s) == s

\* str.lower()
Lower(s) == [i \in DOMAIN s |-> LowerChar(s[i])]

\* str.lstrip() / str.rstrip() / str.strip()
RECURSIVE LStrip(_)
LStrip(s) ==
    IF s # <<>> /\ Head(s) \in Whitespace THEN LStrip(Tail(s)) ELSE s

RECURSIVE RStrip(_)
RStrip(s) ==
    IF s # <<>> /\ s[Len(s)] \in Whitespace
    THEN RStrip(SubSeq(s, 1, Len(s) - 1))
    ELSE s

Strip(s) == RStrip(LStrip(s))

\* the character class [a-zA-Z0-9_-]
NameClass == Range(UpperCase) \cup Range(LowerCase) \cup Digits \cup {"_", "-"}

\* [a-zA-Z0-9_-]+ consuming the whole of s
RECURSIVE ClassPlus(_)
ClassPlus(s) ==
    /\ s # <<>>
    /\ Head(s) \in NameClass
    /\ (Tail(s) = <<>> \/ ClassPlus(Tail(s)))

\* the pattern without its "+$": one leading character of the class is enough
ReMatchName_Unanchored(s) == s # <<>> /\ Head(s) \in NameClass

\* re.match(r"^[a-zA-Z0-9_-]+$", s): "$" also matches before one final newline
ReMatchName(s) ==
    \/ ClassPlus(s)
    \/ /\ s # <<>>
       /\ s[Len(s)] = "\n"
       /\ ClassPlus(SubSeq(s, 1, Len(s) - 1))

PUBLIC == <<"p","u","b","l","i","c">>
PRIVATE == <<"p","r","i","v","a","t","e">>

\* visibility if visibility in ["public", "private"] else "public"
NormVisibility(v) == IF v \in {PUBLIC, PRIVATE} THEN v ELSE PUBLIC

(***************************************************************************)
(* run_command.  rc is the exit code of the child.  The outcome is either  *)
(* the termination of the process (exit = TRUE, code = its exit code) or a *)
(* return to the caller (exit = FALSE): of a result whose returncode is    *)
(* code when captured = TRUE, of None (nothing captured) otherwise.        *)
(***************************************************************************)
\* a captured command that ends the process with the child's own code
run_command_ChildCode(check, live_output, rc) ==
    IF check /\ rc # 0
    THEN [exit |-> TRUE, code |-> rc, captured |-> FALSE]
    ELSE [exit |-> FALSE, code |-> rc, captured |-> ~live_output]

run_command(check, live_output, rc) ==
    IF live_output
    THEN IF rc # 0 /\ check
         THEN [exit |-> TRUE, code |-> rc, captured |-> FALSE]
         ELSE [exit |-> FALSE, code |-> rc, captured |-> FALSE]
    ELSE IF check /\ rc # 0
         THEN [exit |-> TRUE, code |-> 1, captured |-> FALSE]
         ELSE [exit |-> FALSE, code |-> rc, captured |-> TRUE]

(***************************************************************************)
(* State.                                                                  *)
(***************************************************************************)
VARIABLES
    pc,               \* position in main()
    mode,             \* command line: "push", "no_push" (--no-push), "version"
    world0,           \* the working directory, git and its configuration at the start
    push,             \* the push argument of create_github_repo
    prior,            \* the modes of the earlier runs in this directory, in order
    cwd,              \* the name of the working directory once os.getcwd() was asked for it
    fs,               \* working directory: file name -> content ("absent" if none)
    gitName,          \* git config --global user.name
    gitEmail,         \* git config --global user.email
    isRepo,           \* the working directory is inside a git work tree
    remotes,          \* names of the configured git remotes
    repo_name,        \* main's repo_name
    visibility,       \* main's visibility
    entered_name,     \* the text last typed at the repository-name prompt
    entered_vis,      \* the text typed at the visibility prompt
    email,            \* setup_git_config's email
    nprompts,         \* number of repository-name prompts issued
    github_username,  \* the last value returned by get_github_username
    repo_url,         \* create_github_repo's return value
    message,          \* the final "Setup Complete" line printed by main
    lastRc,           \* exit code of the last child process
    phases,           \* the functions main called so far, in order
    trace,            \* what the function called last did so far, in order
    exitCode,         \* exit status of the process once pc = "exited"
    exc               \* the uncaught exception that ended the run, if any

start == <<mode, world0, push, prior>>
world == <<cwd, fs, gitName, gitEmail, isRepo, remotes>>
user == <<repo_name, visibility, entered_name, entered_vis, email, nprompts>>
result == <<github_username, repo_url, message>>
log == <<phases, trace>>
vars == <<pc, start, world, user, result, lastRc, log, exitCode, exc>>

Files == {".venv", "pyproject.toml", ".gitignore", "LICENSE", "README.md",
          "requirements.txt", "template.py", ".vscode", ".vscode/settings.json"}

Exists(f) == fs[f] # "absent"

\* what the workflow tests for and may find in place before the run: a file of
\* the working directory (".vscode": the folder with its settings file), a
\* configured user.name or user.email, a git work tree without remote ("git")
Presets ==
    (Files \ {".vscode/settings.json"}) \cup {"user.name", "user.email", "git"}
InitEnvs == {S \in SUBSET Presets : Cardinality(S) <= MaxPreset}
InitFile(S, f) ==
    IF f \in S \/ (f = ".vscode/settings.json" /\ ".vscode" \in S)
    THEN "pre" ELSE "absent"

\* names the working directory may have
CwdNames == {"proj", "my app"}

OCTO == <<"o","c","t","o">>
MAIL == <<"o","@","x">>

\* what the user may type at the repository-name prompt
NameInputs ==
    { <<>>, <<" ">>,
      <<"a","-","B","_","1">>,
      <<" ","a","b"," ">>,
      <<"a"," ","b">>, <<"a",".","b">>, <<"a","/","b">>, <<"a","!">> }

\* what the user may type at the visibility prompt
VisInputs ==
    { <<>>, PRIVATE, <<" ","P","r","i","v","a","t","e"," ">> }

\* what the user may type at the e-mail prompt
EmailInputs == { <<" ","o","@","x"," ">> }

Init ==
    /\ pc = "parse_args"
    /\ mode \in {"push", "no_push", "version"}
    /\ push = TRUE
    /\ prior = <<>>
    /\ cwd = ""
    /\ \E S \in InitEnvs :
         /\ fs = [f \in Files |-> InitFile(S, f)]
         /\ gitName = IF "user.name" \in S THEN OCTO ELSE <<>>
         /\ gitEmail = IF "user.email" \in S THEN MAIL ELSE <<>>
         /\ remotes \in SUBSET {"origin"}
         /\ isRepo = ("git" \in S \/ remotes # {})
    /\ world0 = [fs |-> fs, gitName |-> gitName, gitEmail |-> gitEmail,
                 isRepo |-> isRepo, remotes |-> remotes]
    /\ repo_name = <<>>
    /\ visibility = <<>>
    /\ entered_name = <<>>
    /\ entered_vis = <<>>
    /\ email = <<>>
    /\ nprompts = 0
    /\ github_username = <<>>
    /\ repo_url = <<>>
    /\ message = <<>>
    /\ lastRc = 0
    /\ phases = <<>>
    /\ trace = <<>>
    /\ exitCode = 0
    /\ exc = "none"

(***************************************************************************)
(* Events of the trace.                                                    *)
(***************************************************************************)
Event(k, n) == [k |-> k, n |-> n, a |-> <<>>, check |-> FALSE, live |-> FALSE]
Prompt(n) == Event("prompt", n)
Cmd(n, a, check, live) == [k |-> "cmd", n |-> n, a |-> a, check |-> check, live |-> live]

\* main calls the function named phase, which does events
Enter(phase, events) == phases' = Append(phases, phase) /\ trace' = events
\* the function called last does events
Log(events) == trace' = trace \o events /\ UNCHANGED phases
Goto(l) == pc' = l /\ UNCHANGED <<exitCode, exc>>
\* sys.exit(code)
SysExit(code) == pc' = "exited" /\ exitCode' = code /\ UNCHANGED exc
\* an exception nothing catches: the interpreter prints it and ends with status
Uncaught(e, status) == pc' = "exited" /\ exitCode' = status /\ exc' = e
\* main returns
Return == pc' = "exited" /\ exitCode' = 0 /\ UNCHANGED exc

(***************************************************************************)
(* main: argument parsing, version check, remote-conflict check.          *)
(***************************************************************************)
\* parser.parse_args(): --version prints the version and exits with 0
parse_args ==
    /\ pc = "parse_args"
    /\ IF mode = "version" THEN SysExit(0) ELSE Goto("check_python_version")
    /\ UNCHANGED <<start, world, user, result, lastRc, log>>

check_python_version ==
    /\ pc = "check_python_version"
    /\ \E old \in BOOLEAN :
         IF old THEN SysExit(1) ELSE Goto("is_git_repo")
    /\ Enter("check_python_version", <<>>)
    /\ UNCHANGED <<start, world, user, result, lastRc>>

\* is_git_repo() calling run_command with check=True
is_git_repo_Checked ==
    /\ pc = "is_git_repo"
    /\ \E rc \in ExitCodes :
         LET o == run_command(TRUE, FALSE, rc) IN
         /\ (rc = 0) <=> isRepo
         /\ Enter("is_git_repo",
                  <<Cmd("git rev-parse --is-inside-work-tree", <<>>, TRUE, FALSE)>>)
         /\ lastRc' = rc
         /\ IF o.exit THEN SysExit(o.code)
            ELSE IF o.code = 0 THEN Goto("has_origin_remote")
            ELSE Goto("mode_branch")
    /\ UNCHANGED <<start, world, user, result>>

\* is_git_repo(): git rev-parse exits 0 exactly inside a work tree;
\* "and" does not call has_origin_remote() when it returns False
is_git_repo ==
    /\ pc = "is_git_repo"
    /\ \E rc \in ExitCodes :
         LET o == run_command(FALSE, FALSE, rc) IN
         /\ (rc = 0) <=> isRepo
         /\ Enter("is_git_repo",
                  <<Cmd("git rev-parse --is-inside-work-tree", <<>>, FALSE, FALSE)>>)
         /\ lastRc' = rc
         /\ IF o.exit THEN SysExit(o.code)
            ELSE IF o.code = 0 THEN Goto("has_origin_remote")
            ELSE Goto("mode_branch")
    /\ UNCHANGED <<start, world, user, result>>

\* main going on although has_origin_remote() returned True
has_origin_remote_NoAbort ==
    /\ pc = "has_origin_remote"
    /\ \E rc \in ExitCodes :
         /\ Enter("has_origin_remote", <<Cmd("git remote", <<>>, FALSE, FALSE)>>)
         /\ lastRc' = rc
         /\ Goto("mode_branch")
    /\ UNCHANGED <<start, world, user, result>>

\* has_origin_remote() and the abort of main when it returns True
has_origin_remote ==
    /\ pc = "has_origin_remote"
    /\ \E rc \in ExitCodes :
         LET o == run_command(FALSE, FALSE, rc) IN
         /\ Enter("has_origin_remote", <<Cmd("git remote", <<>>, FALSE, FALSE)>>)
         /\ lastRc' = rc
         /\ IF o.exit THEN SysExit(o.code)
            ELSE IF "origin" \in remotes THEN SysExit(1)
            ELSE Goto("mode_branch")
    /\ UNCHANGED <<start, world, user, result>>

\* main testing for .venv and pyproject.toml in both modes
mode_branch_BothModes ==
    /\ pc = "mode_branch"
    /\ IF Exists(".venv") /\ Exists("pyproject.toml") THEN SysExit(0)
       ELSE IF mode = "push" THEN Goto("input_repo_name")
       ELSE Goto("no_push_check")
    /\ UNCHANGED <<start, world, user, result, lastRc, log>>

\* main calling setup_git_config in no-push mode too
mode_branch_ConfigAlways ==
    /\ pc = "mode_branch"
    /\ IF mode = "push" THEN Goto("input_repo_name") ELSE Goto("setup_git_config")
    /\ UNCHANGED <<start, world, user, result, lastRc, log>>

\* if not args.no_push: ... else: ...
mode_branch ==
    /\ pc = "mode_branch"
    /\ IF mode = "push" THEN Goto("input_repo_name") ELSE Goto("no_push_check")
    /\ UNCHANGED <<start, world, user, result, lastRc, log>>

(***************************************************************************)
(* main: input collection (push mode).                                     *)
(***************************************************************************)
\* the prompt of the while loop; its first round begins the input collection
PromptRepoName ==
    IF nprompts = 0
    THEN Enter("input_collection", <<Prompt("repo_name")>>)
    ELSE Log(<<Prompt("repo_name")>>)

\* a loop that resets repo_name whatever was typed
input_repo_name_NeverAccepted ==
    /\ pc = "input_repo_name"
    /\ nprompts < MaxPrompts
    /\ \E text \in NameInputs :
         /\ entered_name' = text
         /\ repo_name' = <<>>
         /\ Goto("input_repo_name")
    /\ nprompts' = nprompts + 1
    /\ PromptRepoName
    /\ UNCHANGED <<start, world, visibility, entered_vis, email, result, lastRc>>

\* one round of the while loop: a line is read, stripped and matched
input_repo_name ==
    /\ pc = "input_repo_name"
    /\ nprompts < MaxPrompts
    /\ \E text \in NameInputs :
         LET name == Strip(text) IN
         /\ nprompts + 1 = MaxPrompts => ReMatchName(name)
         /\ entered_name' = text
         /\ IF ReMatchName(name)
            THEN repo_name' = name /\ Goto("input_visibility")
            ELSE repo_name' = <<>> /\ Goto("input_repo_name")
    /\ nprompts' = nprompts + 1
    /\ PromptRepoName
    /\ UNCHANGED <<start, world, visibility, entered_vis, email, result, lastRc>>

\* the user interrupts the repository-name prompt
input_repo_name_interrupt ==
    /\ pc = "input_repo_name"
    /\ nprompts < MaxPrompts
    /\ nprompts' = nprompts + 1
    /\ PromptRepoName
    /\ Uncaught("KeyboardInterrupt", 130)
    /\ UNCHANGED <<start, world, repo_name, visibility, entered_name, entered_vis,
                   email, result, lastRc>>

input_visibility ==
    /\ pc = "input_visibility"
    /\ \E text \in VisInputs :
         /\ entered_vis' = text
         /\ visibility' = NormVisibility(Lower(Strip(text)))
    /\ Log(<<Prompt("visibility")>>)
    /\ Goto("check_gh_installed")
    /\ UNCHANGED <<start, world, repo_name, entered_name, email, nprompts, result, lastRc>>

input_visibility_interrupt ==
    /\ pc = "input_visibility"
    /\ Log(<<Prompt("visibility")>>)
    /\ Uncaught("KeyboardInterrupt", 130)
    /\ UNCHANGED <<start, world, user, result, lastRc>>

(***************************************************************************)
(* check_gh_installed, github_auth, get_github_username, setup_git_config. *)
(***************************************************************************)
\* main ending with the exit code of "gh --version"
check_gh_installed_ChildCode ==
    /\ pc = "check_gh_installed"
    /\ \E rc \in ExitCodes :
         /\ Enter("check_gh_installed", <<Cmd("gh --version", <<>>, FALSE, FALSE)>>)
         /\ lastRc' = rc
         /\ IF rc = 0 THEN Goto("github_auth") ELSE SysExit(rc)
    /\ UNCHANGED <<start, world, user, result>>

\* main going on whatever check_gh_installed() returned
check_gh_installed_Ignored ==
    /\ pc = "check_gh_installed"
    /\ \E rc \in ExitCodes :
         /\ Enter("check_gh_installed", <<Cmd("gh --version", <<>>, FALSE, FALSE)>>)
         /\ lastRc' = rc
         /\ Goto("github_auth")
    /\ UNCHANGED <<start, world, user, result>>

\* check_gh_installed() and "if not check_gh_installed(): sys.exit(1)"
check_gh_installed ==
    /\ pc = "check_gh_installed"
    /\ \E rc \in ExitCodes :
         LET o == run_command(FALSE, FALSE, rc) IN
         /\ Enter("check_gh_installed", <<Cmd("gh --version", <<>>, FALSE, FALSE)>>)
         /\ lastRc' = rc
         /\ IF o.exit THEN SysExit(o.code)
            ELSE IF o.captured /\ o.code = 0 THEN Goto("github_auth")
            ELSE SysExit(1)
    /\ UNCHANGED <<start, world, user, result>>

\* github_auth() logging in whatever the status query said
github_auth_AlwaysLogin ==
    /\ pc = "github_auth"
    /\ \E rc \in ExitCodes :
         LET o == run_command(FALSE, FALSE, rc) IN
         /\ Enter("github_auth", <<Cmd("gh auth status", <<>>, FALSE, FALSE)>>)
         /\ lastRc' = rc
         /\ IF o.exit THEN SysExit(o.code) ELSE Goto("github_auth_login")
    /\ UNCHANGED <<start, world, user, result>>

\* github_auth(): the status query
github_auth ==
    /\ pc = "github_auth"
    /\ \E rc \in ExitCodes :
         LET o == run_command(FALSE, FALSE, rc) IN
         /\ Enter("github_auth", <<Cmd("gh auth status", <<>>, FALSE, FALSE)>>)
         /\ lastRc' = rc
         /\ IF o.exit THEN SysExit(o.code)
            ELSE IF o.code # 0 THEN Goto("github_auth_login")
            ELSE Goto("setup_git_config")
    /\ UNCHANGED <<start, world, user, result>>

\* github_auth(): the interactive login
github_auth_login ==
    /\ pc = "github_auth_login"
    /\ \E rc \in ExitCodes :
         LET o == run_command(TRUE, TRUE, rc) IN
         /\ Log(<<Cmd("gh auth login --web --hostname github.com", <<>>, TRUE, TRUE)>>)
         /\ lastRc' = rc
         /\ IF o.exit THEN SysExit(o.code) ELSE Goto("setup_git_config")
    /\ UNCHANGED <<start, world, user, result>>

\* get_github_username(): run_command with its default check=True, then
\* result.stdout.strip(); ret is where the caller continues
get_github_username(ret) ==
    \E rc \in ExitCodes :
        LET o == run_command(TRUE, FALSE, rc) IN
        /\ Log(<<Cmd("gh api user -q .login", <<>>, TRUE, FALSE)>>)
        /\ lastRc' = rc
        /\ IF o.exit
           THEN SysExit(o.code) /\ UNCHANGED github_username
           ELSE github_username' = Strip(OCTO \o <<"\n">>) /\ Goto(ret)

\* setup_git_config() setting user.name whatever the query printed
setup_git_config_AlwaysName ==
    /\ pc = "setup_git_config"
    /\ \E rc \in ExitCodes :
         LET o == run_command(FALSE, FALSE, rc) IN
         /\ Enter("setup_git_config", <<Cmd("git config --global user.name", <<>>, FALSE, FALSE)>>)
         /\ lastRc' = rc
         /\ IF o.exit THEN SysExit(o.code) ELSE Goto("git_name_username")
    /\ UNCHANGED <<start, world, user, result>>

\* setup_git_config(): the user.name query
setup_git_config ==
    /\ pc = "setup_git_config"
    /\ \E rc \in ExitCodes :
         LET o == run_command(FALSE, FALSE, rc) IN
         /\ Enter("setup_git_config", <<Cmd("git config --global user.name", <<>>, FALSE, FALSE)>>)
         /\ lastRc' = rc
         /\ IF o.exit THEN SysExit(o.code)
            ELSE IF Strip(gitName \o <<"\n">>) = <<>> THEN Goto("git_name_username")
            ELSE Goto("git_email_query")
    /\ UNCHANGED <<start, world, user, result>>

git_name_username ==
    /\ pc = "git_name_username"
    /\ get_github_username("git_name_write")
    /\ UNCHANGED <<start, world, user, repo_url, message>>

git_name_write ==
    /\ pc = "git_name_write"
    /\ \E rc \in ExitCodes :
         LET o == run_command(TRUE, FALSE, rc) IN
         /\ Log(<<Cmd("git config --global user.name", <<github_username>>, TRUE, FALSE)>>)
         /\ lastRc' = rc
         /\ IF o.exit
            THEN SysExit(o.code) /\ UNCHANGED gitName
            ELSE gitName' = github_username /\ Goto("git_email_query")
    /\ UNCHANGED <<start, cwd, fs, gitEmail, isRepo, remotes, user, result>>

git_email_query ==
    /\ pc = "git_email_query"
    /\ \E rc \in ExitCodes :
         LET o == run_command(FALSE, FALSE, rc) IN
         /\ Log(<<Cmd("git config --global user.email", <<>>, FALSE, FALSE)>>)
         /\ lastRc' = rc
         /\ IF o.exit THEN SysExit(o.code)
            ELSE IF Strip(gitEmail \o <<"\n">>) = <<>> THEN Goto("git_email_prompt")
            ELSE Goto("initialize_uv")
    /\ UNCHANGED <<start, world, user, result>>

git_email_prompt ==
    /\ pc = "git_email_prompt"
    /\ \E text \in EmailInputs : email' = Strip(text)
    /\ Log(<<Prompt("email")>>)
    /\ Goto("git_email_write")
    /\ UNCHANGED <<start, world, repo_name, visibility, entered_name, entered_vis,
                   nprompts, result, lastRc>>

git_email_prompt_interrupt ==
    /\ pc = "git_email_prompt"
    /\ Log(<<Prompt("email")>>)
    /\ Uncaught("KeyboardInterrupt", 130)
    /\ UNCHANGED <<start, world, user, result, lastRc>>

git_email_write ==
    /\ pc = "git_email_write"
    /\ \E rc \in ExitCodes :
         LET o == run_command(TRUE, FALSE, rc) IN
         /\ Log(<<Cmd("git config --global user.email", <<email>>, TRUE, FALSE)>>)
         /\ lastRc' = rc
         /\ IF o.exit
            THEN SysExit(o.code) /\ UNCHANGED gitEmail
            ELSE gitEmail' = email /\ Goto("initialize_uv")
    /\ UNCHANGED <<start, cwd, fs, gitName, isRepo, remotes, user, result>>

(***************************************************************************)
(* main: the no-push short-circuit.                                        *)
(***************************************************************************)
\* main without the short-circuit
no_push_check_Never ==
    /\ pc = "no_push_check"
    /\ Goto("initialize_uv")
    /\ UNCHANGED <<start, world, user, result, lastRc, log>>

no_push_check ==
    /\ pc = "no_push_check"
    /\ IF Exists(".venv") /\ Exists("pyproject.toml")
       THEN SysExit(0)
       ELSE Goto("initialize_uv")
    /\ UNCHANGED <<start, world, user, result, lastRc, log>>

(***************************************************************************)
(* initialize_uv.                                                          *)
(***************************************************************************)
\* initialize_uv() going on without uv when the query failed
initialize_uv_NoInstall ==
    /\ pc = "initialize_uv"
    /\ \E rc \in ExitCodes :
         LET o == run_command(FALSE, FALSE, rc) IN
         /\ Enter("initialize_uv", <<Cmd("uv --version", <<>>, FALSE, FALSE)>>)
         /\ lastRc' = rc
         /\ IF o.exit THEN SysExit(o.code) ELSE Goto("uv_init")
    /\ UNCHANGED <<start, world, user, result>>

\* the "uv --version" query
initialize_uv ==
    /\ pc = "initialize_uv"
    /\ \E rc \in ExitCodes :
         LET o == run_command(FALSE, FALSE, rc) IN
         /\ Enter("initialize_uv", <<Cmd("uv --version", <<>>, FALSE, FALSE)>>)
         /\ lastRc' = rc
         /\ IF o.exit THEN SysExit(o.code)
            ELSE IF o.code # 0 THEN Goto("pip_install_uv")
            ELSE Goto("uv_init")
    /\ UNCHANGED <<start, world, user, result>>

pip_install_uv ==
    /\ pc = "pip_install_uv"
    /\ \E rc \in ExitCodes :
         LET o == run_command(TRUE, TRUE, rc) IN
         /\ Log(<<Cmd("pip install uv", <<>>, TRUE, TRUE)>>)
         /\ lastRc' = rc
         /\ IF o.exit THEN SysExit(o.code) ELSE Goto("uv_init")
    /\ UNCHANGED <<start, world, user, result>>

\* a removal that spares a .gitignore "uv init" did not write
RemoveGitignore_Generated(dir) ==
    IF dir[".gitignore"] = "uv" THEN [dir EXCEPT ![".gitignore"] = "absent"] ELSE dir

\* if os.path.exists(".gitignore"): os.remove(".gitignore")
RemoveGitignore(dir) == [dir EXCEPT ![".gitignore"] = "absent"]
RemoveEvents(dir) ==
    IF dir[".gitignore"] # "absent" THEN <<Event("remove", ".gitignore")>> ELSE <<>>

\* uv init left the files of made that were not there, and a git work tree
UvInit(dir, made) ==
    [f \in Files |-> IF f \in made /\ dir[f] = "absent" THEN "uv" ELSE dir[f]]

\* "uv init ." when there is no manifest, then the removal of .gitignore
uv_init ==
    /\ pc = "uv_init"
    /\ IF ~Exists("pyproject.toml")
       THEN \E rc \in ExitCodes :
              LET o == run_command(TRUE, TRUE, rc) IN
              /\ lastRc' = rc
              /\ IF o.exit
                 THEN /\ Log(<<Cmd("uv init .", <<>>, TRUE, TRUE)>>)
                      /\ SysExit(o.code)
                      /\ UNCHANGED <<fs, isRepo>>
                 ELSE \E made \in SUBSET {"pyproject.toml", ".gitignore"} :
                        LET dir == UvInit(fs, made) IN
                        /\ Log(<<Cmd("uv init .", <<>>, TRUE, TRUE)>> \o RemoveEvents(dir))
                        /\ fs' = RemoveGitignore(dir)
                        /\ isRepo' = TRUE
                        /\ Goto("create_basic_files")
       ELSE /\ Log(RemoveEvents(fs))
            /\ fs' = RemoveGitignore(fs)
            /\ Goto("create_basic_files")
            /\ UNCHANGED <<isRepo, lastRc>>
    /\ UNCHANGED <<start, cwd, gitName, gitEmail, remotes, user, result>>

(***************************************************************************)
(* download_files and create_basic_files.                                  *)
(***************************************************************************)
\* how a download ends: "ok"; "status", a status other than 200; "connect",
\* urlopen raises; "read", response.read() raises after open(filename, "wb")
DownloadOutcomes == {"ok", "status", "connect", "read"}

\* a download that removes the provisioned files when it fails
download_files_Cleanup(dir, filename, outcome) ==
    IF outcome = "ok"
    THEN [dir EXCEPT ![filename] = "downloaded"]
    ELSE [dir EXCEPT ![".gitignore"] = "absent", !["LICENSE"] = "absent"]

\* the directory after download_files(url, filename) ended with outcome
download_files(dir, filename, outcome) ==
    CASE outcome = "ok" -> [dir EXCEPT ![filename] = "downloaded"]
      [] outcome = "read" -> [dir EXCEPT ![filename] = "empty"]
      [] OTHER -> dir

\* f"# {repo_name}\n\n## Project Description\n"
ReadmeText(name) == "# " \o name \o "\n\n## Project Description\n"

\* a README.md written only when there is none
WriteReadme_IfAbsent(dir, name) ==
    IF dir["README.md"] = "absent"
    THEN [dir EXCEPT !["README.md"] = ReadmeText(name)]
    ELSE dir

\* with open("README.md", "w") as f: f.write(...)
WriteReadme(dir, name) == [dir EXCEPT !["README.md"] = ReadmeText(name)]

\* create_basic_files() downloading .gitignore whether or not it exists
create_basic_files_Always ==
    /\ pc = "create_basic_files"
    /\ \E outcome \in DownloadOutcomes :
         /\ Enter("create_basic_files", <<Event("download", ".gitignore")>>)
         /\ fs' = download_files(fs, ".gitignore", outcome)
         /\ IF outcome = "ok" THEN Goto("create_license") ELSE SysExit(1)
    /\ UNCHANGED <<start, cwd, gitName, gitEmail, isRepo, remotes, user, result, lastRc>>

\* create_basic_files(): .gitignore
create_basic_files ==
    /\ pc = "create_basic_files"
    /\ IF ~Exists(".gitignore")
       THEN \E outcome \in DownloadOutcomes :
              /\ Enter("create_basic_files", <<Event("download", ".gitignore")>>)
              /\ fs' = download_files(fs, ".gitignore", outcome)
              /\ IF outcome = "ok" THEN Goto("create_license") ELSE SysExit(1)
       ELSE /\ Enter("create_basic_files", <<>>)
            /\ Goto("create_license")
            /\ UNCHANGED fs
    /\ UNCHANGED <<start, cwd, gitName, gitEmail, isRepo, remotes, user, result, lastRc>>

\* the names os.path.basename(os.getcwd()) may return: the directory keeps
\* the name it was found to have
GetCwd == IF cwd = "" THEN CwdNames ELSE {cwd}

\* create_basic_files(): LICENSE, then README.md
create_license ==
    /\ pc = "create_license"
    /\ IF ~Exists("LICENSE")
       THEN \E outcome \in DownloadOutcomes :
              LET dir == download_files(fs, "LICENSE", outcome) IN
              IF outcome = "ok"
              THEN \E name \in GetCwd :
                   /\ Log(<<Event("download", "LICENSE"), Event("write", "README.md")>>)
                   /\ cwd' = name
                   /\ fs' = WriteReadme(dir, name)
                   /\ Goto("setup_virtualenv")
              ELSE /\ Log(<<Event("download", "LICENSE")>>)
                   /\ fs' = dir
                   /\ SysExit(1)
                   /\ UNCHANGED cwd
       ELSE \E name \in GetCwd :
            /\ Log(<<Event("write", "README.md")>>)
            /\ cwd' = name
            /\ fs' = WriteReadme(fs, name)
            /\ Goto("setup_virtualenv")
    /\ UNCHANGED <<start, gitName, gitEmail, isRepo, remotes, user, result, lastRc>>

(***************************************************************************)
(* setup_virtualenv.                                                       *)
(***************************************************************************)
\* setup_virtualenv without its except clauses
ExceptSystemExit_Missing(o) == o

\* try: run_command(..., live_output=True) except SystemExit: sys.exit(1)
ExceptSystemExit(o) == IF o.exit THEN [o EXCEPT !.code = 1] ELSE o

\* setup_virtualenv without the installation of requirements.txt
AfterVenv_SkipInstall ==
    IF Exists("template.py") THEN "venv_template" ELSE "setup_vscode"

\* where setup_virtualenv continues after the environment / after the install
AfterVenv ==
    IF Exists("requirements.txt") THEN "venv_install"
    ELSE IF Exists("template.py") THEN "venv_template"
    ELSE "setup_vscode"
AfterInstall == IF Exists("template.py") THEN "venv_template" ELSE "setup_vscode"

\* setup_virtualenv() without its manifest check
setup_virtualenv_Unchecked ==
    /\ pc = "setup_virtualenv"
    /\ IF ~Exists(".venv")
       THEN \E rc \in ExitCodes :
              LET o == ExceptSystemExit(run_command(TRUE, TRUE, rc)) IN
              /\ Enter("setup_virtualenv", <<Cmd("uv venv", <<>>, TRUE, TRUE)>>)
              /\ lastRc' = rc
              /\ IF o.exit
                 THEN SysExit(o.code) /\ UNCHANGED fs
                 ELSE fs' = [fs EXCEPT ![".venv"] = "venv"] /\ Goto(AfterVenv)
       ELSE /\ Enter("setup_virtualenv", <<>>)
            /\ Goto(AfterVenv)
            /\ UNCHANGED <<fs, lastRc>>
    /\ UNCHANGED <<start, cwd, gitName, gitEmail, isRepo, remotes, user, result>>

\* the manifest check, then "uv venv" when there is no .venv
setup_virtualenv ==
    /\ pc = "setup_virtualenv"
    /\ IF ~Exists("pyproject.toml")
       THEN /\ Enter("setup_virtualenv", <<>>)
            /\ Uncaught("MissingPyprojectTomlError", 1)
            /\ UNCHANGED <<fs, lastRc>>
       ELSE IF ~Exists(".venv")
       THEN \E rc \in ExitCodes :
              LET o == ExceptSystemExit(run_command(TRUE, TRUE, rc)) IN
              /\ Enter("setup_virtualenv", <<Cmd("uv venv", <<>>, TRUE, TRUE)>>)
              /\ lastRc' = rc
              /\ IF o.exit
                 THEN SysExit(o.code) /\ UNCHANGED fs
                 ELSE fs' = [fs EXCEPT ![".venv"] = "venv"] /\ Goto(AfterVenv)
       ELSE /\ Enter("setup_virtualenv", <<>>)
            /\ Goto(AfterVenv)
            /\ UNCHANGED <<fs, lastRc>>
    /\ UNCHANGED <<start, cwd, gitName, gitEmail, isRepo, remotes, user, result>>

\* uv add -r requirements.txt inside the environment
venv_install ==
    /\ pc = "venv_install"
    /\ \E rc \in ExitCodes :
         LET o == ExceptSystemExit(run_command(TRUE, TRUE, rc)) IN
         /\ Log(<<Cmd("uv add -r requirements.txt", <<>>, TRUE, TRUE)>>)
         /\ lastRc' = rc
         /\ IF o.exit THEN SysExit(o.code) ELSE Goto("venv_sync")
    /\ UNCHANGED <<start, world, user, result>>

\* uv sync inside the environment
venv_sync ==
    /\ pc = "venv_sync"
    /\ \E rc \in ExitCodes :
         LET o == ExceptSystemExit(run_command(TRUE, TRUE, rc)) IN
         /\ Log(<<Cmd("uv sync", <<>>, TRUE, TRUE)>>)
         /\ lastRc' = rc
         /\ IF o.exit THEN SysExit(o.code) ELSE Goto(AfterInstall)
    /\ UNCHANGED <<start, world, user, result>>

\* template.py run with check=False: its failure goes unnoticed
venv_template_Unchecked ==
    /\ pc = "venv_template"
    /\ \E rc \in ExitCodes :
         LET o == ExceptSystemExit(run_command(FALSE, TRUE, rc)) IN
         /\ Log(<<Cmd("uv run template.py", <<>>, TRUE, TRUE)>>)
         /\ lastRc' = rc
         /\ IF o.exit THEN SysExit(o.code) ELSE Goto("setup_vscode")
    /\ UNCHANGED <<start, world, user, result>>

\* uv run template.py inside the environment
venv_template ==
    /\ pc = "venv_template"
    /\ \E rc \in ExitCodes :
         LET o == ExceptSystemExit(run_command(TRUE, TRUE, rc)) IN
         /\ Log(<<Cmd("uv run template.py", <<>>, TRUE, TRUE)>>)
         /\ lastRc' = rc
         /\ IF o.exit THEN SysExit(o.code) ELSE Goto("setup_vscode")
    /\ UNCHANGED <<start, world, user, result>>

(***************************************************************************)
(* setup_vscode, and the branch of main that follows it.                   *)
(***************************************************************************)
\* main calling create_github_repo whatever the mode
setup_vscode_AlwaysRemote ==
    /\ pc = "setup_vscode"
    /\ Enter("setup_vscode", <<Event("write", ".vscode/settings.json")>>)
    /\ fs' = [fs EXCEPT
                ![".vscode"] = IF @ = "absent" THEN "dir" ELSE @,
                ![".vscode/settings.json"] = "settings"]
    /\ Goto("create_github_repo")
    /\ UNCHANGED <<start, cwd, gitName, gitEmail, isRepo, remotes, user, result, lastRc>>

setup_vscode ==
    /\ pc = "setup_vscode"
    /\ Enter("setup_vscode", <<Event("write", ".vscode/settings.json")>>)
    /\ fs' = [fs EXCEPT
                ![".vscode"] = IF @ = "absent" THEN "dir" ELSE @,
                ![".vscode/settings.json"] = "settings"]
    /\ IF mode = "push" THEN Goto("create_github_repo") ELSE Goto("finish")
    /\ UNCHANGED <<start, cwd, gitName, gitEmail, isRepo, remotes, user, result, lastRc>>

(***************************************************************************)
(* create_github_repo(repo_name, visibility, push=True).                   *)
(***************************************************************************)
\* the value None
None == <<"None">>

\* "git add ." when push is set; otherwise the function returns None at once
create_github_repo ==
    /\ pc = "create_github_repo"
    /\ IF push
       THEN \E rc \in ExitCodes :
              LET o == run_command(TRUE, FALSE, rc) IN
              /\ Enter("create_github_repo", <<Cmd("git add .", <<>>, TRUE, FALSE)>>)
              /\ lastRc' = rc
              /\ IF o.exit THEN SysExit(o.code) ELSE Goto("git_commit")
              /\ UNCHANGED repo_url
       ELSE /\ Enter("create_github_repo", <<>>)
            /\ repo_url' = None
            /\ Goto("finish")
            /\ UNCHANGED lastRc
    /\ UNCHANGED <<start, world, user, github_username, message>>

\* the commit run with check=True
git_commit_Checked ==
    /\ pc = "git_commit"
    /\ \E rc \in ExitCodes :
         LET o == run_command(TRUE, FALSE, rc) IN
         /\ Log(<<Cmd("git commit -m", <<>>, TRUE, FALSE)>>)
         /\ lastRc' = rc
         /\ IF o.exit THEN SysExit(o.code)
            ELSE IF o.captured /\ o.code = 0 THEN Goto("git_branch")
            ELSE Goto("gh_repo_create")
    /\ UNCHANGED <<start, world, user, result>>

\* git commit -m "Initial commit", check=False
git_commit ==
    /\ pc = "git_commit"
    /\ \E rc \in ExitCodes :
         LET o == run_command(FALSE, FALSE, rc) IN
         /\ Log(<<Cmd("git commit -m", <<>>, FALSE, FALSE)>>)
         /\ lastRc' = rc
         /\ IF o.exit THEN SysExit(o.code)
            ELSE IF o.captured /\ o.code = 0 THEN Goto("git_branch")
            ELSE Goto("gh_repo_create")
    /\ UNCHANGED <<start, world, user, result>>

git_branch ==
    /\ pc = "git_branch"
    /\ \E rc \in ExitCodes :
         LET o == run_command(TRUE, FALSE, rc) IN
         /\ Log(<<Cmd("git branch -M main", <<>>, TRUE, FALSE)>>)
         /\ lastRc' = rc
         /\ IF o.exit THEN SysExit(o.code) ELSE Goto("gh_repo_create")
    /\ UNCHANGED <<start, world, user, result>>

\* gh repo create without --remote=origin: no remote is configured
gh_repo_create_NoRemote ==
    /\ pc = "gh_repo_create"
    /\ \E rc \in ExitCodes :
         LET o == run_command(TRUE, FALSE, rc) IN
         /\ Log(<<Cmd("gh repo create", <<repo_name, visibility>>, TRUE, FALSE)>>)
         /\ lastRc' = rc
         /\ IF o.exit THEN SysExit(o.code) ELSE Goto("repo_username")
    /\ UNCHANGED <<start, world, user, result>>

\* gh repo create run with check=False: its failure goes unnoticed
gh_repo_create_Unchecked ==
    /\ pc = "gh_repo_create"
    /\ \E rc \in ExitCodes :
         /\ Log(<<Cmd("gh repo create", <<repo_name, visibility>>, FALSE, FALSE)>>)
         /\ lastRc' = rc
         /\ remotes' = IF rc = 0 THEN remotes \cup {"origin"} ELSE remotes
         /\ isRepo' = (isRepo \/ rc = 0)
         /\ Goto("repo_username")
    /\ UNCHANGED <<start, cwd, fs, gitName, gitEmail, user, result>>

\* gh repo create that always asks for a public repository
gh_repo_create_Public ==
    /\ pc = "gh_repo_create"
    /\ \E rc \in ExitCodes :
         LET o == run_command(TRUE, FALSE, rc) IN
         /\ Log(<<Cmd("gh repo create", <<repo_name, PUBLIC>>, TRUE, FALSE)>>)
         /\ lastRc' = rc
         /\ IF o.exit
            THEN SysExit(o.code) /\ UNCHANGED <<isRepo, remotes>>
            ELSE /\ remotes' = remotes \cup {"origin"}
                 /\ isRepo' = TRUE
                 /\ Goto("repo_username")
    /\ UNCHANGED <<start, cwd, fs, gitName, gitEmail, user, result>>

\* gh repo create {repo_name} --{visibility} --source=. --remote=origin --push
gh_repo_create ==
    /\ pc = "gh_repo_create"
    /\ \E rc \in ExitCodes :
         LET o == run_command(TRUE, FALSE, rc) IN
         /\ Log(<<Cmd("gh repo create", <<repo_name, visibility>>, TRUE, FALSE)>>)
         /\ lastRc' = rc
         /\ IF o.exit
            THEN SysExit(o.code) /\ UNCHANGED <<isRepo, remotes>>
            ELSE /\ remotes' = remotes \cup {"origin"}
                 /\ isRepo' = TRUE
                 /\ Goto("repo_username")
    /\ UNCHANGED <<start, cwd, fs, gitName, gitEmail, user, result>>

\* github_username = get_github_username(); repo_url = f"https://..."; return
repo_username ==
    /\ pc = "repo_username"
    /\ get_github_username("finish")
    /\ repo_url' = IF pc' = "finish"
                   THEN <<"https://github.com/", github_username', "/", repo_name>>
                   ELSE repo_url
    /\ UNCHANGED <<start, world, user, message>>

(***************************************************************************)
(* main: the final messages.                                               *)
(***************************************************************************)
\* main printing the message without the URL
finish_NoUrl ==
    /\ pc = "finish"
    /\ message' = <<"Setup Complete! (no GitHub repo created)">>
    /\ Return
    /\ UNCHANGED <<start, world, user, github_username, repo_url, lastRc, log>>

finish ==
    /\ pc = "finish"
    /\ message' = IF mode = "push"
                  THEN <<"Setup Complete! Repository: ", repo_url>>
                  ELSE <<"Setup Complete! (no GitHub repo created)">>
    /\ Return
    /\ UNCHANGED <<start, world, user, github_username, repo_url, lastRc, log>>

Next ==
    \/ parse_args
    \/ check_python_version
    \/ is_git_repo
    \/ has_origin_remote
    \/ mode_branch
    \/ input_repo_name
    \/ input_repo_name_interrupt
    \/ input_visibility
    \/ input_visibility_interrupt
    \/ check_gh_installed
    \/ github_auth
    \/ github_auth_login
    \/ setup_git_config
    \/ git_name_username
    \/ git_name_write
    \/ git_email_query
    \/ git_email_prompt
    \/ git_email_prompt_interrupt
    \/ git_email_write
    \/ no_push_check
    \/ initialize_uv
    \/ pip_install_uv
    \/ uv_init
    \/ create_basic_files
    \/ create_license
    \/ setup_virtualenv
    \/ venv_install
    \/ venv_sync
    \/ venv_template
    \/ setup_vscode
    \/ create_github_repo
    \/ git_commit
    \/ git_branch
    \/ gh_repo_create
    \/ repo_username
    \/ finish

Spec == Init /\ [][Next]_vars

\* the script is sequential and every call it waits for returns: a step that
\* can be taken is taken
FairSpec == Spec /\ WF_vars(Next)

(***************************************************************************)
(* The functions called on their own.  create_basic_files, setup_virtualenv *)
(* and create_github_repo are called in any directory and with any         *)
(* arguments main may pass or a caller may choose; create_basic_files is   *)
(* called a second time when it returned.  A function has returned when pc *)
(* is the position of main that follows its call.                          *)
(***************************************************************************)
\* the functions called
Callables == {"create_basic_files", "setup_virtualenv", "create_github_repo"}

\* the directories a call may find: any of the files but the editor's
CallDirs == SUBSET (Files \ {".vscode", ".vscode/settings.json"})

\* the names main may pass to create_github_repo: the accepted entries
RepoNames == {Strip(t) : t \in {u \in NameInputs : ReMatchName(Strip(u))}}

InitCalls ==
    /\ pc \in Callables
    /\ mode = "call"
    /\ prior = <<>>
    /\ \E S \in CallDirs : fs = [f \in Files |-> InitFile(S, f)]
    /\ cwd = ""
    /\ gitName = OCTO
    /\ gitEmail = MAIL
    /\ isRepo = TRUE
    /\ remotes = {}
    /\ world0 = [fs |-> fs, gitName |-> gitName, gitEmail |-> gitEmail,
                 isRepo |-> isRepo, remotes |-> remotes]
    /\ IF pc = "create_github_repo"
       THEN /\ push \in BOOLEAN
            /\ repo_name \in RepoNames
            /\ visibility \in {PUBLIC, PRIVATE}
       ELSE /\ push = TRUE
            /\ repo_name = <<>>
            /\ visibility = <<>>
    /\ entered_name = <<>>
    /\ entered_vis = <<>>
    /\ email = <<>>
    /\ nprompts = 0
    /\ github_username = <<>>
    /\ repo_url = <<>>
    /\ message = <<>>
    /\ lastRc = 0
    /\ phases = <<>>
    /\ trace = <<>>
    /\ exitCode = 0
    /\ exc = "none"

\* create_basic_files() returned and is called once more
create_basic_files_again ==
    /\ pc = "setup_virtualenv"
    /\ phases = <<"create_basic_files">>
    /\ pc' = "create_basic_files"
    /\ UNCHANGED <<start, world, user, result, lastRc, log, exitCode, exc>>

NextCalls ==
    \/ create_basic_files
    \/ create_license
    \/ create_basic_files_again
    \/ setup_virtualenv
    \/ venv_install
    \/ venv_sync
    \/ venv_template
    \/ create_github_repo
    \/ git_commit
    \/ git_branch
    \/ gh_repo_create
    \/ repo_username

SpecCalls == InitCalls /\ [][NextCalls]_vars

(***************************************************************************)
(* Runs of main one after the other in the same directory: when a run      *)
(* reached Done, main is started again, in either mode, in the directory   *)
(* and with the git configuration and remotes that run left.               *)
(***************************************************************************)
run_again ==
    /\ pc = "exited" /\ message # <<>>
    /\ pc' = "parse_args"
    /\ prior' = Append(prior, mode)
    /\ mode' \in {"push", "no_push"}
    /\ world0' = [fs |-> fs, gitName |-> gitName, gitEmail |-> gitEmail,
                  isRepo |-> isRepo, remotes |-> remotes]
    /\ repo_name' = <<>>
    /\ visibility' = <<>>
    /\ entered_name' = <<>>
    /\ entered_vis' = <<>>
    /\ email' = <<>>
    /\ nprompts' = 0
    /\ github_username' = <<>>
    /\ repo_url' = <<>>
    /\ message' = <<>>
    /\ lastRc' = 0
    /\ phases' = <<>>
    /\ trace' = <<>>
    /\ exitCode' = 0
    /\ exc' = "none"
    /\ UNCHANGED <<push, world>>

NextRuns ==
    \/ Next
    \/ run_again

SpecRuns == Init /\ [][NextRuns]_vars

(***************************************************************************)
(* Vocabulary of the properties.                                           *)
(***************************************************************************)
Last(s) == s[Len(s)]
IsPrefix(s, t) == Len(s) <= Len(t) /\ s = SubSeq(t, 1, Len(s))
Exited == pc = "exited"
Done == Exited /\ message # <<>>
Called(p) == \E i \in DOMAIN phases : phases[i] = p
CurWorld == [fs |-> fs, gitName |-> gitName, gitEmail |-> gitEmail,
             isRepo |-> isRepo, remotes |-> remotes]
Cmds == {e \in Range(trace) : e.k = "cmd"}
LastIsCmd == trace # <<>> /\ Last(trace).k = "cmd"
LastCmd(n) == LastIsCmd /\ Last(trace).n = n

ProbePhases == <<"check_python_version", "is_git_repo", "has_origin_remote">>
PushOrder == <<"github_auth", "setup_git_config", "initialize_uv", "create_basic_files",
               "setup_virtualenv", "setup_vscode", "create_github_repo">>
NoPushOrder == <<"initialize_uv", "create_basic_files", "setup_virtualenv", "setup_vscode">>
IsWorkflowPhase(p) == p \in Range(PushOrder)
IsMainPhase(p) == p \in Range(PushOrder) \cup {"input_collection", "check_gh_installed"}

ConflictAtStart == world0.isRepo /\ "origin" \in world0.remotes
BootstrappedAtStart ==
    world0.fs[".venv"] # "absent" /\ world0.fs["pyproject.toml"] # "absent"
\* the no-push exit of main for a directory that is already set up
ShortCircuit ==
    /\ Exited /\ mode = "no_push" /\ exc = "none"
    /\ phases # <<>> /\ Last(phases) \in {"is_git_repo", "has_origin_remote"}
    /\ "origin" \notin remotes
    /\ Exists(".venv") /\ Exists("pyproject.toml")

\* s without its leading and trailing whitespace
Trimmed(s) ==
    LET keep == {i \in DOMAIN s : s[i] \notin Whitespace} IN
    IF keep = {} THEN <<>>
    ELSE SubSeq(s, CHOOSE i \in keep : \A j \in keep : i <= j,
                   CHOOSE i \in keep : \A j \in keep : j <= i)
\* s is not empty and holds only letters, digits, "-" and "_"
ValidName(s) ==
    /\ s # <<>>
    /\ \A i \in DOMAIN s :
         \/ s[i] \in Digits \cup {"-", "_"}
         \/ \E k \in DOMAIN UpperCase : s[i] \in {UpperCase[k], LowerCase[k]}
\* s and the lower-case word t differ in letter case at most
SameIgnoringCase(s, t) ==
    /\ Len(s) = Len(t)
    /\ \A i \in DOMAIN s :
         \/ s[i] = t[i]
         \/ \E k \in DOMAIN UpperCase : s[i] = UpperCase[k] /\ t[i] = LowerCase[k]

\* the commands of check_gh_installed, github_auth, setup_git_config and
\* create_github_repo
GithubCmds ==
    {"gh --version", "gh auth status", "gh auth login --web --hostname github.com",
     "gh api user -q .login", "git config --global user.name",
     "git config --global user.email", "git add .", "git commit -m",
     "git branch -M main", "gh repo create"}

\* the command run last was captured, checked, and its child failed
CapturedFailed ==
    LastIsCmd /\ Last(trace).check /\ ~Last(trace).live /\ lastRc # 0

\* the command run last was live, checked, and its child failed
LiveFailed ==
    LastIsCmd /\ Last(trace).check /\ Last(trace).live /\ lastRc # 0

\* the commands of setup_virtualenv
VirtualenvCmds == {"uv venv", "uv add -r requirements.txt", "uv sync", "uv run template.py"}

\* the live checked commands outside setup_virtualenv
PropagatingCmds == {"gh auth login --web --hostname github.com", "pip install uv", "uv init ."}

\* the commands of check_gh_installed, github_auth's query, is_git_repo,
\* has_origin_remote
UncheckedProbeCmds ==
    {"gh --version", "gh auth status", "git rev-parse --is-inside-work-tree", "git remote"}

\* the number of downloads of f the function called last attempted
Downloads(f) ==
    Cardinality({i \in DOMAIN trace : trace[i].k = "download" /\ trace[i].n = f})

\* the n-th call in a row of create_basic_files is the call made last
InBasicFiles(n) ==
    Len(phases) = n /\ \A i \in DOMAIN phases : phases[i] = "create_basic_files"

\* create_github_repo is the function called last
InRepo == phases # <<>> /\ Last(phases) = "create_github_repo"
\* the names of what the function called last did
Names == [i \in DOMAIN trace |-> trace[i].n]
\* the commands of create_github_repo with and without the branch rename
RepoCmdsRenamed ==
    <<"git add .", "git commit -m", "git branch -M main", "gh repo create",
      "gh api user -q .login">>
RepoCmdsUnrenamed ==
    <<"git add .", "git commit -m", "gh repo create", "gh api user -q .login">>

\* the run ended while a prompt was waiting for its line
InterruptedAtPrompt == Exited /\ trace # <<>> /\ Last(trace).k = "prompt"

\* the run ended in a download
DownloadFailed == Exited /\ trace # <<>> /\ Last(trace).k = "download"

\* the places of gh repo create in what the function called last did
RepoCreates == {i \in DOMAIN trace : trace[i].n = "gh repo create"}

\* setup_git_config is the function called last
InGitConfig == phases # <<>> /\ Last(phases) = "setup_git_config"
\* the commands of the function called last that set the git option n
ConfigWrites(n) == {e \in Cmds : e.n = n /\ e.a # <<>>}
\* the names of the commands the function called last ran, in order
IsCmd(e) == e.k = "cmd"
CmdNames == [i \in DOMAIN SelectSeq(trace, IsCmd) |-> SelectSeq(trace, IsCmd)[i].n]
\* initialize_uv is the function called last
InUv == phases # <<>> /\ Last(phases) = "initialize_uv"
\* setup_virtualenv is the function called last
InVenv == phases # <<>> /\ Last(phases) = "setup_virtualenv"
\* the commands a directory asks of setup_virtualenv, in order
VenvPlan(dir) ==
    (IF dir[".venv"] = "absent" THEN <<"uv venv">> ELSE <<>>)
    \o (IF dir["requirements.txt"] # "absent"
        THEN <<"uv add -r requirements.txt", "uv sync">> ELSE <<>>)
    \o (IF dir["template.py"] # "absent" THEN <<"uv run template.py">> ELSE <<>>)
(***************************************************************************)
(* C1.  When the directory is a repository with a remote origin, the run   *)
(* ends at the remote-conflict check with exit code 1: no prompt has been  *)
(* issued, nothing but the two probes has run and the directory and the    *)
(* git configuration are as they were, in push and in no-push mode.        *)
(***************************************************************************)
RemoteConflictAborts ==
    ConflictAtStart =>
        /\ IsPrefix(phases, ProbePhases)
        /\ nprompts = 0
        /\ \A e \in Range(trace) : e.k = "cmd" /\ ~e.check
        /\ CurWorld = world0
        /\ message = <<>>
        /\ Called("has_origin_remote") => Exited /\ exitCode = 1 /\ exc = "none"

RemoteConflictSeen ==
    /\ ConflictAtStart /\ mode = "push"
    /\ Called("has_origin_remote") /\ Exited /\ exitCode = 1

(***************************************************************************)
(* C2.  As claimed: every no-push run in a directory that holds .venv and  *)
(* pyproject.toml (and gets past the version check) ends with exit code 0  *)
(* and changes nothing.                                                    *)
(***************************************************************************)
NoPushBootstrappedExitsZero ==
    (mode = "no_push" /\ BootstrappedAtStart /\ Called("is_git_repo") /\ Exited)
        => exitCode = 0 /\ CurWorld = world0

(***************************************************************************)
(* C2, amended.  A no-push run in a directory that holds .venv and         *)
(* pyproject.toml and has no remote origin never gets past the             *)
(* short-circuit: it changes nothing, prompts for nothing, calls none of   *)
(* the setup functions, and once past the version check it ends with exit  *)
(* code 0.                                                                 *)
(***************************************************************************)
NoPushShortCircuit ==
    (mode = "no_push" /\ BootstrappedAtStart /\ "origin" \notin world0.remotes) =>
        /\ IsPrefix(phases, ProbePhases)
        /\ nprompts = 0
        /\ \A e \in Range(trace) : e.k = "cmd" /\ ~e.check
        /\ CurWorld = world0
        /\ message = <<>>
        /\ (Exited /\ Called("is_git_repo")) => exitCode = 0 /\ exc = "none"

NoPushShortCircuitTaken ==
    /\ mode = "no_push" /\ BootstrappedAtStart
    /\ ShortCircuit /\ exitCode = 0

(***************************************************************************)
(* C3.  In push mode the setup functions are called in the order           *)
(* github_auth, setup_git_config, initialize_uv, create_basic_files,       *)
(* setup_virtualenv, setup_vscode, create_github_repo, none twice; a run   *)
(* that reaches Done called all seven and printed the final message with   *)
(* the URL create_github_repo returned, built from the probed username and *)
(* the repository name.                                                    *)
(***************************************************************************)
PushHappyPath ==
    mode = "push" =>
        /\ IsPrefix(SelectSeq(phases, IsWorkflowPhase), PushOrder)
        /\ Done =>
             /\ SelectSeq(phases, IsWorkflowPhase) = PushOrder
             /\ exitCode = 0 /\ exc = "none"
             /\ repo_url = <<"https://github.com/", OCTO, "/", repo_name>>
             /\ message = <<"Setup Complete! Repository: ", repo_url>>

PushDone == mode = "push" /\ Done /\ repo_name = <<"a","-","B","_","1">>

(***************************************************************************)
(* C4.  In no-push mode main calls initialize_uv, create_basic_files,      *)
(* setup_virtualenv, setup_vscode in this order (all four when it reaches  *)
(* Done) and nothing else: no prompt, no check_gh_installed, github_auth   *)
(* or setup_git_config, no command of create_github_repo; the git          *)
(* configuration and the remotes stay as they were.                        *)
(***************************************************************************)
NoPushLocalOnly ==
    mode = "no_push" =>
        /\ IsPrefix(SelectSeq(phases, IsMainPhase), NoPushOrder)
        /\ Done => SelectSeq(phases, IsMainPhase) = NoPushOrder /\ exitCode = 0
        /\ nprompts = 0
        /\ \A e \in Range(trace) : e.k # "prompt" /\ e.n \notin GithubCmds
        /\ gitName = world0.gitName /\ gitEmail = world0.gitEmail
        /\ remotes = world0.remotes
        /\ repo_url = <<>>

NoPushDone == mode = "no_push" /\ Done /\ ~BootstrappedAtStart

(***************************************************************************)
(* C5.  As claimed: a name is accepted exactly when the entered text is    *)
(* not empty and holds only letters, digits, "-" and "_", and repo_name is *)
(* the text that was entered.                                              *)
(***************************************************************************)
NameAcceptedAsEntered ==
    /\ repo_name # <<>> <=> (nprompts > 0 /\ ValidName(entered_name))
    /\ repo_name # <<>> => repo_name = entered_name

(***************************************************************************)
(* C5, amended.  A name is accepted exactly when the entered text without  *)
(* its surrounding whitespace is not empty and holds only letters, digits, *)
(* "-" and "_"; repo_name is that trimmed text of the last entry, and it   *)
(* is such a name whenever check_gh_installed, github_auth or              *)
(* create_github_repo runs, and in the gh repo create command.             *)
(***************************************************************************)
NameAcceptedTrimmed ==
    /\ repo_name # <<>> <=> (nprompts > 0 /\ ValidName(Trimmed(entered_name)))
    /\ repo_name # <<>> => repo_name = Trimmed(entered_name)
    /\ (Called("check_gh_installed") \/ Called("github_auth")
            \/ Called("create_github_repo") \/ pc = "input_visibility")
         => ValidName(repo_name)
    /\ \A e \in Cmds : e.n = "gh repo create" => e.a[1] = Trimmed(entered_name)

NameReentered ==
    /\ Called("create_github_repo") /\ nprompts = MaxPrompts
    /\ repo_name # entered_name

(***************************************************************************)
(* C6.  As claimed: create_github_repo gets "public" for every entered     *)
(* text other than exactly "public" or "private", and the entered text     *)
(* otherwise.                                                              *)
(***************************************************************************)
VisibilityExactMatch ==
    \A e \in Cmds : e.n = "gh repo create" =>
        e.a[2] = IF entered_vis \in {PUBLIC, PRIVATE} THEN entered_vis ELSE PUBLIC

(***************************************************************************)
(* C6, amended.  create_github_repo gets "private" exactly when the        *)
(* entered text, without surrounding whitespace and whatever its letter    *)
(* case, is "private", and "public" for every other text.                  *)
(***************************************************************************)
VisibilityNormalised ==
    /\ Called("check_gh_installed") =>
         /\ visibility \in {PUBLIC, PRIVATE}
         /\ visibility = PRIVATE <=> SameIgnoringCase(Trimmed(entered_vis), PRIVATE)
    /\ \A e \in Cmds : e.n = "gh repo create" => e.a[2] = visibility

VisibilityFolded ==
    \E e \in Cmds :
        e.n = "gh repo create" /\ e.a[2] = PRIVATE /\ entered_vis # PRIVATE

(***************************************************************************)
(* C7.  A captured command run with check=True whose child exits with a    *)
(* code other than 0 ends the process with exit code 1, whatever the code  *)
(* of the child; its caller does not go on.                                *)
(***************************************************************************)
CapturedFailureExitsOne ==
    CapturedFailed => Exited /\ exitCode = 1 /\ exc = "none"

CapturedFailureSeen ==
    CapturedFailed /\ Last(trace).n = "git add ." /\ lastRc = MaxRc /\ Exited

(***************************************************************************)
(* C8.  As claimed: a live command run with check=True whose child exits   *)
(* with a code c other than 0 ends the program with exit code c.           *)
(***************************************************************************)
LiveFailureExitsChildCode == LiveFailed => Exited /\ exitCode = lastRc

(***************************************************************************)
(* C8, amended.  A failed live checked command ends the program with the   *)
(* code of the child when it is gh auth login, pip install uv or uv init,  *)
(* and with exit code 1 when it is one of the commands of                  *)
(* setup_virtualenv (uv venv, uv add, uv sync, uv run template.py).  The   *)
(* workflow runs no live command with check=False; run_command with        *)
(* check=False and live output never ends the program and captures         *)
(* nothing.                                                                *)
(***************************************************************************)
LiveFailureExit ==
    /\ LiveFailed =>
         /\ Exited /\ exc = "none"
         /\ exitCode = IF Last(trace).n \in VirtualenvCmds THEN 1 ELSE lastRc
    /\ \A e \in Cmds : e.live => e.check
    /\ \A rc \in ExitCodes :
         ~run_command(FALSE, TRUE, rc).exit /\ ~run_command(FALSE, TRUE, rc).captured

LiveFailureInVirtualenv ==
    LiveFailed /\ Last(trace).n = "uv venv" /\ lastRc = MaxRc /\ exitCode = 1

ProbesNeverFatal ==
    (LastIsCmd /\ lastRc # 0
        /\ Last(trace).n \in {"gh auth status", "gh api user -q .login"})
      => ~Exited

(***************************************************************************)
(* C10, amended.  check_gh_installed, the status query of github_auth,     *)
(* is_git_repo and has_origin_remote each issue one captured command with  *)
(* check=False and return whatever its exit code; get_github_username      *)
(* issues its captured command with check=True, and an exit code other     *)
(* than 0 of it ends the process with exit code 1.                         *)
(***************************************************************************)
ProbesExceptUsernameNeverFatal ==
    /\ \A e \in Cmds : e.n \in UncheckedProbeCmds => ~e.check /\ ~e.live
    /\ \A e \in Cmds : e.n = "gh api user -q .login" => e.check /\ ~e.live
    /\ (phases # <<>> /\ Last(phases) \in {"is_git_repo", "has_origin_remote",
                                          "check_gh_installed"})
         => Len(trace) = 1
    /\ (LastCmd("gh auth status") /\ lastRc # 0) => pc = "github_auth_login"
    /\ (LastCmd("git rev-parse --is-inside-work-tree") /\ Exited)
         => ShortCircuit /\ exitCode = 0
    /\ (LastCmd("git remote") /\ Exited)
         => \/ "origin" \in remotes /\ exitCode = 1
            \/ ShortCircuit /\ exitCode = 0
    /\ (LastCmd("gh --version") /\ Exited) => lastRc # 0 /\ exitCode = 1
    /\ (LastCmd("gh api user -q .login") /\ lastRc # 0) => Exited /\ exitCode = 1

UsernameProbeFatal ==
    /\ LastCmd("gh api user -q .login") /\ lastRc # 0
    /\ Called("create_github_repo") /\ Exited /\ exitCode = 1

(***************************************************************************)
(* C11.  As claimed: a run interrupted by the user at one of the prompts   *)
(* (repository name, visibility, git e-mail) ends by an exit with a code   *)
(* other than 0 and no uncaught exception.                                 *)
(***************************************************************************)
InterruptEndsCleanly ==
    InterruptedAtPrompt => exc = "none" /\ exitCode # 0

(***************************************************************************)
(* C12.  As claimed: when a download fails the process ends with exit code *)
(* 1 and the target file, which create_basic_files found missing, is still *)
(* missing.                                                                *)
(***************************************************************************)
DownloadFailureLeavesNoFile ==
    DownloadFailed => exitCode = 1 /\ ~Exists(Last(trace).n)

(***************************************************************************)
(* C13.  create_basic_files downloads neither .gitignore nor LICENSE when  *)
(* the file exists at the call, and leaves its content as it was; it       *)
(* attempts at most one download of each; a second call right after the    *)
(* first returned downloads nothing, so that two calls in a row download   *)
(* each file at most once.                                                 *)
(***************************************************************************)
DownloadsOnlyMissing ==
    \A f \in {".gitignore", "LICENSE"} :
        /\ InBasicFiles(1) =>
             /\ Downloads(f) <= 1
             /\ world0.fs[f] # "absent" =>
                  Downloads(f) = 0 /\ fs[f] = world0.fs[f]
        /\ InBasicFiles(2) =>
             /\ Downloads(f) = 0
             /\ fs[f] = IF world0.fs[f] # "absent" THEN world0.fs[f] ELSE "downloaded"

SecondCallDownloadsNothing ==
    /\ InBasicFiles(2) /\ pc = "setup_virtualenv"
    /\ world0.fs[".gitignore"] = "absent" /\ world0.fs["LICENSE"] # "absent"

(***************************************************************************)
(* C14.  As claimed: a .gitignore that existed before the run is there     *)
(* with its content throughout the run of main.                            *)
(***************************************************************************)
PreexistingGitignoreKept ==
    world0.fs[".gitignore"] # "absent" => fs[".gitignore"] = world0.fs[".gitignore"]

(***************************************************************************)
(* C14, amended.  .gitignore is as it was before the run until             *)
(* initialize_uv ends; initialize_uv ends by removing whatever .gitignore  *)
(* exists, so that create_basic_files always finds none and downloads one: *)
(* from then on the file is the downloaded one, or, when the download      *)
(* failed and ended the run, missing or empty; never the one that existed  *)
(* before and never the one uv init wrote.                                 *)
(***************************************************************************)
GitignoreAlwaysReplaced ==
    /\ (~Called("create_basic_files") /\ pc # "create_basic_files")
         => fs[".gitignore"] = world0.fs[".gitignore"]
    /\ pc = "create_basic_files" => ~Exists(".gitignore")
    /\ Called("create_basic_files") =>
         /\ fs[".gitignore"] \in {"downloaded", "absent", "empty"}
         /\ fs[".gitignore"] # "downloaded" =>
              /\ Exited /\ exitCode = 1
              /\ Last(phases) = "create_basic_files"
              /\ Last(trace) = Event("download", ".gitignore")
    /\ Done => fs[".gitignore"] = "downloaded"

PreexistingGitignoreReplaced ==
    Done /\ world0.fs[".gitignore"] = "pre" /\ fs[".gitignore"] = "downloaded"

(***************************************************************************)
(* C15.  setup_virtualenv called in a directory without pyproject.toml     *)
(* raises MissingPyprojectTomlError before it runs any command, whatever   *)
(* else the directory holds; nothing in main catches it: the run ends with *)
(* an exit status other than 0, setup_vscode and create_github_repo are    *)
(* not called and no final message is printed.  The exception is raised in *)
(* no other case.                                                          *)
(***************************************************************************)
ManifestRequired ==
    /\ (phases # <<>> /\ Last(phases) = "setup_virtualenv" /\ ~Exists("pyproject.toml")) =>
         /\ Exited /\ exc = "MissingPyprojectTomlError" /\ exitCode # 0
         /\ trace = <<>>
         /\ ~Called("setup_vscode") /\ ~Called("create_github_repo")
         /\ ~Exists(".vscode/settings.json") \/ world0.fs[".vscode/settings.json"] # "absent"
         /\ message = <<>>
    /\ exc = "MissingPyprojectTomlError" =>
         Last(phases) = "setup_virtualenv" /\ ~Exists("pyproject.toml")

ManifestMissingSeen ==
    /\ exc = "MissingPyprojectTomlError" /\ mode = "push"
    /\ Exists("requirements.txt") /\ Exists("template.py")

(***************************************************************************)
(* C16.  create_github_repo with push set runs git add, git commit, git    *)
(* branch -M main (only right after a commit that exited 0, and always     *)
(* then), gh repo create and the username probe, in this order and each at *)
(* most once.  A commit that exits with another code does not end the run: *)
(* gh repo create is next.  A git add, git branch or gh repo create that   *)
(* exits with a code other than 0 ends the run with exit code 1, so that   *)
(* no later command runs.                                                  *)
(***************************************************************************)
RepoCommandOrder ==
    (InRepo /\ push) =>
        /\ IsPrefix(Names, RepoCmdsRenamed) \/ IsPrefix(Names, RepoCmdsUnrenamed)
        /\ \A e \in Range(trace) : e.k = "cmd"
        /\ LastCmd("git commit -m") =>
             /\ ~Exited
             /\ pc = IF lastRc = 0 THEN "git_branch" ELSE "gh_repo_create"
        /\ pc = "git_branch" => LastCmd("git commit -m") /\ lastRc = 0
        /\ pc = "gh_repo_create" =>
             \/ LastCmd("git commit -m") /\ lastRc # 0
             \/ LastCmd("git branch -M main") /\ lastRc = 0
        /\ \A n \in {"git add .", "git branch -M main", "gh repo create"} :
             (LastCmd(n) /\ lastRc # 0) => Exited /\ exitCode = 1 /\ exc = "none"
        /\ \A n \in {"git add .", "git branch -M main", "gh repo create"} :
             (LastCmd(n) /\ lastRc = 0) => ~Exited

FailedCommitThenCreate ==
    /\ InRepo /\ mode = "push"
    /\ Names = SubSeq(RepoCmdsUnrenamed, 1, 3)
    /\ lastRc = 0 /\ pc = "repo_username"

(***************************************************************************)
(* C17.  create_github_repo(n, v, push) with push set issues gh repo       *)
(* create at most once, with the name n and the visibility v it was given, *)
(* and when it returns it issued it exactly once and returns               *)
(* https://github.com/<u>/n, u being what the username probe returned; it  *)
(* returns nothing before.  With push not set it returns None at once: no  *)
(* command, no change of the directory, of git or of its configuration.    *)
(***************************************************************************)
RepoCreatedOnceWithUrl ==
    InRepo =>
        IF push
        THEN /\ Cardinality(RepoCreates) <= 1
             /\ \A i \in RepoCreates :
                  trace[i] = Cmd("gh repo create", <<repo_name, visibility>>, TRUE, FALSE)
             /\ pc = "finish" =>
                  /\ Cardinality(RepoCreates) = 1
                  /\ LastCmd("gh api user -q .login") /\ lastRc = 0
                  /\ github_username = OCTO
                  /\ repo_url = <<"https://github.com/", github_username, "/", repo_name>>
             /\ pc # "finish" => repo_url = <<>>
        ELSE /\ pc = "finish"
             /\ trace = <<>>
             /\ repo_url = None
             /\ CurWorld = world0

PrivateRepoCreated ==
    /\ InRepo /\ push /\ pc = "finish"
    /\ visibility = PRIVATE /\ repo_name = <<"a","b">>

(***************************************************************************)
(* C18.  As claimed: in every run that reached initialize_uv, in push mode *)
(* and in no-push mode, setup_git_config has been called.                  *)
(***************************************************************************)
GitConfigBeforeRepoInit ==
    Called("initialize_uv") => Called("setup_git_config")

(***************************************************************************)
(* C18, amended.  setup_git_config is among what no-push mode skips: a run *)
(* that reached initialize_uv has called setup_git_config exactly when it  *)
(* is in push mode, and then right before initialize_uv; a no-push run     *)
(* calls neither the input collection, check_gh_installed, github_auth,    *)
(* setup_git_config nor create_github_repo and leaves user.name and        *)
(* user.email as they were.                                                *)
(***************************************************************************)
GitConfigOnlyInPushMode ==
    /\ Called("initialize_uv") => (Called("setup_git_config") <=> mode = "push")
    /\ (mode = "push" /\ pc = "initialize_uv") => Last(phases) = "setup_git_config"
    /\ mode = "no_push" =>
         /\ \A p \in {"input_collection", "check_gh_installed", "github_auth",
                      "setup_git_config", "create_github_repo"} : ~Called(p)
         /\ gitName = world0.gitName /\ gitEmail = world0.gitEmail

RepoInitWithoutGitConfig ==
    /\ mode = "no_push" /\ Called("initialize_uv") /\ Called("setup_vscode")
    /\ world0.gitName = <<>> /\ gitName = <<>>

(***************************************************************************)
(* C19.  In push mode, when gh --version exits with a code other than 0,   *)
(* main ends with exit code 1 right after check_gh_installed: the name and *)
(* the visibility have been collected, and neither github_auth,            *)
(* setup_git_config, initialize_uv nor any later function has been called; *)
(* the directory, git and its configuration are as they were.  When it     *)
(* exits with 0 the run goes on with github_auth, which is called in no    *)
(* other case.                                                             *)
(***************************************************************************)
GhMissingAborts ==
    /\ (LastCmd("gh --version") /\ lastRc # 0) =>
         /\ Exited /\ exitCode = 1 /\ exc = "none"
         /\ mode = "push"
         /\ Last(phases) = "check_gh_installed"
         /\ SelectSeq(phases, IsMainPhase) = <<"input_collection", "check_gh_installed">>
         /\ ValidName(repo_name) /\ visibility \in {PUBLIC, PRIVATE}
         /\ CurWorld = world0
         /\ message = <<>>
    /\ (LastCmd("gh --version") /\ lastRc = 0) => ~Exited /\ pc = "github_auth"
    /\ Called("github_auth") => Called("check_gh_installed")
    /\ pc = "github_auth" => LastCmd("gh --version") /\ lastRc = 0

GhMissingSeen ==
    /\ LastCmd("gh --version") /\ lastRc = MaxRc
    /\ Exited /\ exitCode = 1 /\ visibility = PRIVATE

LoginIffNotAuthenticated ==
    /\ (phases # <<>> /\ Last(phases) = "github_auth") =>
         /\ IsPrefix(Names, <<"gh auth status", "gh auth login --web --hostname github.com">>)
         /\ LastCmd("gh auth status") =>
              /\ ~Exited
              /\ pc = IF lastRc # 0 THEN "github_auth_login" ELSE "setup_git_config"
         /\ LastCmd("gh auth login --web --hostname github.com") =>
              /\ Last(trace).live /\ Last(trace).check
              /\ IF lastRc # 0
                 THEN Exited /\ exitCode = lastRc /\ exc = "none"
                 ELSE pc = "setup_git_config"
    /\ pc = "github_auth_login" => LastCmd("gh auth status") /\ lastRc # 0
    /\ Called("setup_git_config") => Called("github_auth")

LoginFailed ==
    /\ LastCmd("gh auth login --web --hostname github.com") /\ lastRc = MaxRc
    /\ Exited /\ exitCode = MaxRc /\ ~Called("setup_git_config")

(***************************************************************************)
(* C22.  A user.name or user.email that is configured before the run is    *)
(* never changed.  In setup_git_config an already configured user.name     *)
(* means no username probe and no command setting it, an already           *)
(* configured user.email no prompt and no command setting it, and with     *)
(* both configured the two queries are all it does.  A value that was      *)
(* missing is set to the probed username, resp. to the trimmed e-mail the  *)
(* user typed, so that both are configured when the function returns.      *)
(***************************************************************************)
GitConfigOnlyWhenMissing ==
    /\ world0.gitName # <<>> => gitName = world0.gitName
    /\ world0.gitEmail # <<>> => gitEmail = world0.gitEmail
    /\ gitName # world0.gitName => gitName = github_username /\ gitName = OCTO
    /\ gitEmail # world0.gitEmail => gitEmail = email /\ gitEmail = MAIL
    /\ InGitConfig =>
         /\ world0.gitName # <<>> =>
              /\ \A e \in Cmds : e.n # "gh api user -q .login"
              /\ ConfigWrites("git config --global user.name") = {}
         /\ world0.gitEmail # <<>> =>
              /\ \A e \in Range(trace) : e.k # "prompt"
              /\ ConfigWrites("git config --global user.email") = {}
         /\ (world0.gitName # <<>> /\ world0.gitEmail # <<>>) =>
              IsPrefix(Names, <<"git config --global user.name",
                                "git config --global user.email">>)
         /\ pc = "initialize_uv" =>
              /\ gitName # <<>> /\ gitEmail # <<>>
              /\ world0.gitName = <<>> <=>
                   ConfigWrites("git config --global user.name") # {}
              /\ world0.gitEmail = <<>> <=>
                   ConfigWrites("git config --global user.email") # {}

GitConfigLeftAlone ==
    /\ InGitConfig /\ pc = "initialize_uv"
    /\ world0.gitName # <<>> /\ world0.gitEmail # <<>>
    /\ Len(trace) = 2

(***************************************************************************)
(* C23.  initialize_uv runs uv --version, then pip install uv exactly when *)
(* the query exited with a code other than 0, then uv init . exactly when  *)
(* the directory holds no pyproject.toml.  A pyproject.toml that exists is *)
(* never changed.  A pip install uv or uv init . that fails ends the run   *)
(* (with its code) before create_basic_files.                              *)
(***************************************************************************)
UvInstalledThenInit ==
    /\ world0.fs["pyproject.toml"] # "absent" =>
         fs["pyproject.toml"] = world0.fs["pyproject.toml"]
    /\ pc = "pip_install_uv" => LastCmd("uv --version") /\ lastRc # 0
    /\ InUv =>
         /\ \/ IsPrefix(CmdNames, <<"uv --version", "pip install uv", "uv init .">>)
            \/ IsPrefix(CmdNames, <<"uv --version", "uv init .">>)
         /\ LastCmd("uv --version") =>
              /\ ~Exited
              /\ IF lastRc # 0 THEN pc = "pip_install_uv"
                 ELSE pc \in {"uv_init", "create_basic_files"}
         /\ \A n \in {"pip install uv", "uv init ."} :
              (LastCmd(n) /\ lastRc # 0) =>
                  /\ Exited /\ exitCode = lastRc /\ exc = "none"
                  /\ ~Called("create_basic_files")
                  /\ fs = world0.fs
         /\ (LastCmd("pip install uv") /\ lastRc = 0) =>
              pc \in {"uv_init", "create_basic_files"}
         /\ "uv init ." \in Range(CmdNames) => world0.fs["pyproject.toml"] = "absent"
         /\ pc = "create_basic_files" =>
              ("uv init ." \in Range(CmdNames) <=> world0.fs["pyproject.toml"] = "absent")

UvInstalledAndInitialised ==
    /\ InUv /\ pc = "create_basic_files"
    /\ CmdNames = <<"uv --version", "pip install uv", "uv init .">>
    /\ Exists("pyproject.toml")

(***************************************************************************)
(* C24.  With pyproject.toml in place setup_virtualenv runs, in this       *)
(* order, uv venv exactly when there is no .venv, the installation of      *)
(* requirements.txt and then the lockfile sync exactly when                *)
(* requirements.txt exists, and template.py exactly when it exists; each   *)
(* command is run only when the one before it exited 0, and the function   *)
(* returns when all of them did.                                           *)
(***************************************************************************)
VirtualenvInOrder ==
    (InVenv /\ world0.fs["pyproject.toml"] # "absent") =>
        /\ IsPrefix(Names, VenvPlan(world0.fs))
        /\ \A e \in Range(trace) : e.k = "cmd" /\ e.live /\ e.check
        /\ pc = "setup_vscode" => Names = VenvPlan(world0.fs) /\ Exists(".venv")
        /\ (~Exited /\ LastIsCmd) => lastRc = 0
        /\ Exited => LastIsCmd /\ lastRc # 0 /\ exitCode = 1
        /\ (LastCmd("uv sync") \/ pc = "venv_sync") =>
             Exists("requirements.txt") /\ "uv add -r requirements.txt" \in Range(Names)

VirtualenvAllSteps ==
    /\ InVenv /\ pc = "setup_vscode"
    /\ Names = <<"uv venv", "uv add -r requirements.txt", "uv sync", "uv run template.py">>

(***************************************************************************)
(* C26.  When uv venv, the installation of requirements.txt, the lockfile  *)
(* sync or the run of template.py exits with a code other than 0, the run  *)
(* ends in setup_virtualenv with exit code 1 whatever that code was:       *)
(* neither setup_vscode nor create_github_repo is called, the settings     *)
(* file is not written and no remote is created.                           *)
(***************************************************************************)
VirtualenvFailureExitsOne ==
    (LastIsCmd /\ Last(trace).n \in VirtualenvCmds /\ lastRc # 0) =>
        /\ Exited /\ exitCode = 1 /\ exc = "none"
        /\ Last(phases) = "setup_virtualenv"
        /\ ~Called("setup_vscode") /\ ~Called("create_github_repo")
        /\ fs[".vscode/settings.json"] = world0.fs[".vscode/settings.json"]
        /\ remotes = world0.remotes
        /\ message = <<>>

TemplateFailed ==
    /\ LastCmd("uv run template.py") /\ lastRc = MaxRc
    /\ Exited /\ exitCode = 1 /\ mode = "push"

(***************************************************************************)
(* C25.  No step of the run undoes an effect of an earlier one.  A         *)
(* configured user.name or user.email, the git work tree, a remote, and    *)
(* every file but .gitignore stay once they are there; the manifest,       *)
(* LICENSE and .venv keep their content; .gitignore is removed by          *)
(* initialize_uv only.  The step that ends the run with an exit code other *)
(* than 0 changes nothing that exists, and no step follows the end of the  *)
(* run.                                                                    *)
(***************************************************************************)
NoCompensation ==
    [][ /\ pc # "exited"
        /\ gitName # <<>> => gitName' = gitName
        /\ gitEmail # <<>> => gitEmail' = gitEmail
        /\ isRepo => isRepo'
        /\ remotes \subseteq remotes'
        /\ \A f \in Files \ {".gitignore"} : Exists(f) => fs'[f] # "absent"
        /\ \A f \in {"pyproject.toml", "LICENSE", ".venv", "requirements.txt", "template.py"} :
             Exists(f) => fs'[f] = fs[f]
        /\ (Exists(".gitignore") /\ pc # "uv_init") => fs'[".gitignore"] = fs[".gitignore"]
        /\ (pc' = "exited" /\ exitCode' # 0) =>
             /\ gitName' = gitName /\ gitEmail' = gitEmail
             /\ isRepo' = isRepo /\ remotes' = remotes
             /\ \A f \in Files : Exists(f) => fs'[f] = fs[f]
      ]_vars

EffectsKeptAfterFailure ==
    /\ Exited /\ exitCode = 1 /\ InRepo
    /\ world0.gitName = <<>> /\ gitName = OCTO
    /\ world0.fs[".venv"] = "absent" /\ fs[".venv"] = "venv"
    /\ fs[".gitignore"] = "downloaded" /\ fs["LICENSE"] = "downloaded"
    /\ fs[".vscode/settings.json"] = "settings"
    /\ "origin" \in remotes

(***************************************************************************)
(* C27.  As claimed: a push-mode run that ends with an exit code other     *)
(* than 0 has not created the remote.                                      *)
(***************************************************************************)
NonzeroExitMeansNoRemote ==
    (mode = "push" /\ Exited /\ exitCode # 0) => remotes = world0.remotes

(***************************************************************************)
(* C27, amended.  A push-mode run that ends with an exit code other than 0 *)
(* has not created the remote, or it has and the username probe that       *)
(* follows gh repo create failed (exit code 1, no final message).  The     *)
(* remote is created by gh repo create in create_github_repo only; a run   *)
(* that created it and ended otherwise reached Done with exit code 0 and   *)
(* the message with the URL, and every push-mode run that reached Done     *)
(* created it.                                                             *)
(***************************************************************************)
RemoteCreatedThenProbed ==
    /\ (mode = "push" /\ Exited /\ exitCode # 0) =>
         \/ remotes = world0.remotes
         \/ /\ InRepo /\ LastCmd("gh api user -q .login") /\ lastRc # 0
            /\ exitCode = 1 /\ message = <<>>
    /\ remotes # world0.remotes =>
         /\ mode = "push" /\ InRepo
         /\ "gh repo create" \in Range(Names)
         /\ pc \in {"repo_username", "finish", "exited"}
    /\ (remotes # world0.remotes /\ Exited
            /\ ~(LastCmd("gh api user -q .login") /\ lastRc # 0)) =>
         /\ Done /\ exitCode = 0
         /\ message = <<"Setup Complete! Repository: ", repo_url>>
    /\ (mode = "push" /\ Done) => "origin" \in remotes /\ remotes # world0.remotes

RemoteCreatedAndExitOne ==
    /\ mode = "push" /\ Exited /\ exitCode = 1
    /\ "origin" \in remotes /\ world0.remotes = {}
    /\ Names = RepoCmdsUnrenamed

(***************************************************************************)
(* C28.  A run of main in a directory in which an earlier push-mode run    *)
(* reached Done finds a repository with remote origin and, in push mode    *)
(* and in no-push mode, ends at the remote-conflict check with exit code   *)
(* 1: no prompt, nothing but the probes, the directory, git and its        *)
(* configuration as the run found them.                                    *)
(***************************************************************************)
RunAfterPushStopsAtConflict ==
    "push" \in Range(prior) =>
        /\ world0.isRepo /\ "origin" \in world0.remotes
        /\ IsPrefix(phases, ProbePhases)
        /\ nprompts = 0
        /\ \A e \in Range(trace) : e.k = "cmd" /\ ~e.check
        /\ CurWorld = world0
        /\ message = <<>>
        /\ Called("has_origin_remote") => Exited /\ exitCode = 1 /\ exc = "none"
        /\ Exited => exitCode = 1

RunAfterPushStopped ==
    /\ "push" \in Range(prior) /\ mode = "no_push"
    /\ Called("has_origin_remote") /\ Exited /\ exitCode = 1

(***************************************************************************)
(* C29.  A run of main in the directory a no-push run that reached Done    *)
(* left finds .venv and pyproject.toml and no remote origin.  In no-push   *)
(* mode it ends at the short-circuit: no prompt, nothing but the probes,   *)
(* nothing changed, exit code 0 once past the version check.  In push mode *)
(* it is not stopped there: past the version check it prompts for the      *)
(* name, and when it ends with exit code 0 it has called every function of *)
(* the push workflow in order and created the remote.                      *)
(***************************************************************************)
ShortCircuitOnlyWithoutPush ==
    prior = <<"no_push">> =>
        /\ BootstrappedAtStart /\ "origin" \notin world0.remotes
        /\ mode = "no_push" =>
             /\ IsPrefix(phases, ProbePhases)
             /\ nprompts = 0
             /\ CurWorld = world0
             /\ message = <<>>
             /\ (Exited /\ Called("is_git_repo")) => exitCode = 0 /\ exc = "none"
        /\ mode = "push" =>
             /\ pc # "no_push_check"
             /\ (Exited /\ nprompts = 0) =>
                  Last(phases) = "check_python_version" /\ exitCode = 1
             /\ (Exited /\ exitCode = 0) =>
                  /\ Done
                  /\ SelectSeq(phases, IsWorkflowPhase) = PushOrder
                  /\ "origin" \in remotes

PushAfterNoPushDone ==
    prior = <<"no_push">> /\ mode = "push" /\ Done /\ "origin" \in remotes

(***************************************************************************)
(* C30.  When every command, download and prompt returns and the user      *)
(* enters a valid name in the end, every run of main ends.  main is at the *)
(* repository-name prompt again exactly when the name entered last was not *)
(* valid, no other position repeats, and no function is called twice.      *)
(***************************************************************************)
RunTerminates ==
    /\ <>(pc = "exited")
    /\ [](/\ \A i, j \in DOMAIN phases : phases[i] = phases[j] => i = j
          /\ (pc = "input_repo_name" /\ nprompts > 0) =>
               ~ValidName(Trimmed(entered_name)) /\ repo_name = <<>>
          /\ pc = "input_visibility" => ValidName(Trimmed(entered_name)))
    /\ [][pc' = pc => pc = "input_repo_name"]_vars

RunEndedAfterRetry ==
    Done /\ nprompts = MaxPrompts /\ mode = "push"

====
